---- MODULE Spec2Model ----
(***************************************************************************)
(* State-machine model of trainer/forward_trainer.py (ForwardTrainer):     *)
(* the curriculum scheduler `train`, the training-session loop             *)
(* `train_session`, the validation pass `evaluate` and the diagnostics     *)
(* emitter `generate_plots`.                                               *)
(*                                                                         *)
(* Collaborators that live outside trainer/forward_trainer.py (the model's *)
(* step counter, the data loaders, the Averager, the ignore_exception      *)
(* decorator) are modelled from their documented contract.                 *)
(***************************************************************************)
EXTENDS Integers, Sequences, FiniteSets, TLC

\* ------------------------------------------------------------------ bounds
\* longest curriculum (number of stages of hp.forward_schedule)
MaxStages == 2
\* a stage's target step lies at most this far above the starting step
MaxTarget == 3
\* number of samples of the training data
TrainSamples == 2
\* number of samples of the validation data
ValSamples == 2

\* step counter of the model when train() is called (0: fresh model,
\* 998: a model resumed from a checkpoint just below a thousands boundary)
StartSteps == {0, 998}
\* learning rates and batch sizes a stage may name
Rates == {1, 2}
BatchSizes == {1, 2}
\* values of hp.forward_checkpoint_every and hp.forward_plot_every
Periods == {1, 2}

\* ------------------------------------------------------------- variables
VARIABLES
    forward_schedule,          \* hp.forward_schedule: <<[lr, max_step, bs], ...>>
    forward_checkpoint_every,  \* hp.forward_checkpoint_every
    forward_plot_every,        \* hp.forward_plot_every
    model_step,                \* model.step, read through model.get_step()
    training,                  \* model.training (TRUE after train(), FALSE after eval())
    opt_lr,                    \* g['lr'] of every optimizer.param_groups entry
    pc,                        \* position of control
    i,                         \* train(): 1-based index of the stage at hand
    session,                   \* the TTSSession being run
    current_step,              \* train_session local (line 41)
    total_iters,               \* train_session local (line 43)
    epochs,                    \* train_session local (line 44)
    e,                         \* train_session: epoch index (line 58)
    bi,                        \* train_session: batch index `i` of line 62
    step,                      \* train_session local (line 89)
    k,                         \* train_session local (line 90)
    avg,                       \* the samples held by each Averager
    m_val_loss,                \* evaluate(): the mel loss sum, then mean (num / den)
    val_i,                     \* evaluate(): batch index `i` of line 146
    \* ---- observations (history of calls made to the collaborators)
    loads,                     \* get_tts_datasets calls: <<[index, batch_size], ...>>
    status,                    \* per stage: "pending", "skipped", "running", "done"
    opt_steps,                 \* number of optimizer.step() calls
    saves,                     \* save_checkpoint calls: <<[name, step], ...>>
    forwards,                  \* model calls seen: {[caller, grad, training]}
    batch_events,              \* calls made for the batch at hand, in order
    plot_result,               \* outcome of generate_plots for the batch at hand
    epoch_batches,             \* batches processed since the epoch at hand began
    epochs_done,               \* epochs completed in the session at hand
    evals,                     \* number of evaluate() passes in the epoch at hand
    epoch_events,              \* end-of-epoch calls of the epoch at hand, in order
    step_lrs,                  \* {[index, lr]}: the rate in force at optimizer steps
    val_bag,                   \* evaluate(): how many batches gave each loss value
    save_ok,                   \* FALSE once a save_checkpoint call has raised
    avg_read,                  \* the samples each Averager held at its last get()
    start_step,                \* model.get_step() when train() was called
    examined                   \* per stage: the step counter seen at line 31, or -1

cfg_vars == <<forward_schedule, forward_checkpoint_every, forward_plot_every>>
model_vars == <<model_step, training, opt_lr>>
local_vars == <<i, session, current_step, total_iters, epochs, e, bi, step, k, avg, val_i,
                m_val_loss>>
obs_vars == <<loads, status, opt_steps, saves, forwards, batch_events, plot_result,
              epoch_batches, epochs_done, evals, epoch_events, step_lrs, val_bag,
              save_ok, avg_read, start_step, examined>>
vars == <<cfg_vars, model_vars, pc, local_vars, obs_vars>>

\* ------------------------------------------------------------- helpers
CeilDiv(a, b) == (a + b - 1) \div b

\* the five Averager objects of train_session (lines 52-56)
AvgNames == {"m_loss_avg", "dur_loss_avg", "sil_loss_avg", "duration_avg", "pitch_loss_avg"}

NoSession == [index |-> 0, lr |-> 0, max_step |-> 0, bs |-> 0, train_set |-> 0, val_set |-> 0]

\* one (lr, max_step, bs) entry of hp.forward_schedule; a target may
\* equal the starting step (a stage completed before the resume) and a later
\* stage's target may lie below the step an earlier session has reached
Targets(s0) == s0 .. (s0 + MaxTarget)

Stages(s0) == [lr : Rates, max_step : Targets(s0), bs : BatchSizes]

\* the curricula: up to MaxStages stages, the learning rate changing from
\* each stage to the next. The rates are only ever copied and compared, so
\* the first stage takes the rate 1 without loss of cases
Schedules(s0) ==
    {sch \in UNION {[1 .. n -> Stages(s0)] : n \in 0 .. MaxStages} :
        /\ \A n \in 1 .. (Len(sch) - 1) : sch[n].lr # sch[n + 1].lr
        /\ Len(sch) >= 1 => sch[1].lr = 1}

\* utils.dataset.get_tts_datasets: a train and a validation loader whose
\* lengths are the numbers of batches of size batch_size
get_tts_datasets(batch_size) ==
    [train_set |-> CeilDiv(TrainSamples, batch_size),
     val_set   |-> CeilDiv(ValSamples, batch_size)]

\* TTSSession(index, r, lr, max_step, bs, train_set, val_set), lines 34-36
TTSSession(index, lr, max_step, bs, data) ==
    [index |-> index, lr |-> lr, max_step |-> max_step, bs |-> bs,
     train_set |-> data.train_set, val_set |-> data.val_set]

\* line 31: the stage is run when the step counter is below its target
StageDueLenient(s, max_step) == s <= max_step
StageDueSnapshot(s, max_step) == start_step < max_step
StageDueAlways(s, max_step) == TRUE
StageDue(s, max_step) == s < max_step

\* line 44: epochs = training_steps // total_iters + 1
EpochsNoExtra(training_steps, iters) == training_steps \div iters
EpochsTwoExtra(training_steps, iters) == training_steps \div iters + 2
EpochsCeil(training_steps, iters) == CeilDiv(training_steps, iters)
Epochs(training_steps, iters) == training_steps \div iters + 1

\* line 65: model.train() puts the model in training mode
ModelTrainOmitted(mode) == mode
ModelTrain(mode) == TRUE

\* models.forward_tacotron: the model's step counter after one optimizer
\* update
StepAfterUpdate(s) == s + 1

\* lines 49-50: every parameter group takes the session's learning rate
SetLrOmitted(old, lr) == old
SetLr(old, lr) == lr

\* trainer.common.Averager: add(x) records a sample, get() is the mean of the
\* samples recorded since the last reset(), reset() clears them. A sample is
\* named by the batch it comes from: [index, e, i]
AveragerNew == {}
AveragerAdd(samples, x) == samples \cup {x}
AveragerReset(samples) == {}

\* lines 130-134: all five averagers are reset
ResetAllButPitch(av) ==
    [a \in AvgNames |-> IF a = "pitch_loss_avg" THEN av[a] ELSE AveragerReset(av[a])]
ResetAll(av) == [a \in AvgNames |-> AveragerReset(av[a])]

\* values of m1_loss.item() + m2_loss.item() for a validation batch
Losses == {1, 2}

\* line 139: m_val_loss = 0; line 156: m_val_loss += ...; the value is kept
\* as the fraction num / den
ZeroLoss == [num |-> 0, den |-> 1]
AddLoss(acc, l) == [num |-> acc.num + l * acc.den, den |-> acc.den]

\* line 161: m_val_loss /= len(val_set)
ValMeanPerSample(acc, val_set) == [num |-> acc.num, den |-> acc.den * ValSamples]
ValMean(acc, val_set) == [num |-> acc.num, den |-> acc.den * val_set]

\* lines 102-103 and 128: save_checkpoint is called outside any try block,
\* an exception it raises leaves train_session and train
AfterSaveSwallowed(ok, next) == next
AfterSave(ok, next) == IF ok THEN next ELSE "raised"

\* line 90: k = step // 1000
ThousandsExact(s) == s
Thousands(s) == s \div 1000

\* line 101: ckpt_name = f'forward_step{k}K'; line 128: no name given
CkptName(kk) == [named |-> TRUE, k |-> kk]
LatestName == [named |-> FALSE, k |-> 0]

\* ------------------------------------------------------------------ Init
Init ==
    \E s0 \in StartSteps :
      /\ forward_schedule \in Schedules(s0)
      /\ forward_checkpoint_every \in Periods
      /\ forward_plot_every \in Periods
      /\ model_step = s0
      /\ training = TRUE
      /\ opt_lr = 0
      /\ pc = "train"
      /\ i = 1
      /\ session = NoSession
      /\ current_step = 0
      /\ total_iters = 0
      /\ epochs = 0
      /\ e = 0
      /\ bi = 0
      /\ step = 0
      /\ k = 0
      /\ avg = [a \in AvgNames |-> AveragerNew]
      /\ val_i = 0
      /\ m_val_loss = ZeroLoss
      /\ loads = <<>>
      /\ status = [n \in 1 .. Len(forward_schedule) |-> "pending"]
      /\ opt_steps = 0
      /\ saves = <<>>
      /\ forwards = {}
      /\ batch_events = <<>>
      /\ plot_result = "none"
      /\ epoch_batches = 0
      /\ epochs_done = 0
      /\ evals = 0
      /\ epoch_events = <<>>
      /\ step_lrs = {}
      /\ val_bag = [l \in Losses |-> 0]
      /\ save_ok = TRUE
      /\ avg_read = [a \in AvgNames |-> {}]
      /\ start_step = s0
      /\ examined = [n \in 1 .. Len(forward_schedule) |-> -1]

\* ----------------------------------------------------------------- train
\* lines 29-31, stage not due: nothing is done for it
TrainSkip ==
    /\ pc = "train"
    /\ i <= Len(forward_schedule)
    /\ ~StageDue(model_step, forward_schedule[i].max_step)
    /\ i' = i + 1
    /\ status' = [status EXCEPT ![i] = "skipped"]
    /\ examined' = [examined EXCEPT ![i] = model_step]
    /\ UNCHANGED <<cfg_vars, model_vars, pc, session, current_step, total_iters, epochs,
                   e, bi, step, k, avg, val_i, loads, opt_steps, saves, forwards,
                   batch_events, plot_result, epoch_batches, epochs_done, evals>>
    /\ UNCHANGED <<epoch_events, step_lrs, m_val_loss, val_bag, save_ok, avg_read, start_step>>

\* lines 29-37, stage due: load the data with the stage's batch size, build
\* the session and enter train_session
TrainStage ==
    /\ pc = "train"
    /\ i <= Len(forward_schedule)
    /\ LET session_params == forward_schedule[i]
           lr == session_params.lr
           max_step == session_params.max_step
           bs == session_params.bs
       IN  /\ StageDue(model_step, max_step)
           /\ loads' = Append(loads, [index |-> i, batch_size |-> bs])
           /\ session' = TTSSession(i, lr, max_step, bs, get_tts_datasets(bs))
    /\ status' = [status EXCEPT ![i] = "running"]
    /\ examined' = [examined EXCEPT ![i] = model_step]
    /\ pc' = "train_session"
    /\ UNCHANGED <<cfg_vars, model_vars, i, current_step, total_iters, epochs,
                   e, bi, step, k, avg, val_i, opt_steps, saves, forwards,
                   batch_events, plot_result, epoch_batches, epochs_done, evals>>
    /\ UNCHANGED <<epoch_events, step_lrs, m_val_loss, val_bag, save_ok, avg_read, start_step>>

\* line 29, schedule exhausted: train returns
TrainReturn ==
    /\ pc = "train"
    /\ i > Len(forward_schedule)
    /\ pc' = "returned"
    /\ UNCHANGED <<cfg_vars, model_vars, local_vars, obs_vars>>

\* line 37 returns: the for loop of line 29 moves to the next stage
TrainNext ==
    /\ pc = "session_return"
    /\ i' = i + 1
    /\ status' = [status EXCEPT ![i] = "done"]
    /\ pc' = "train"
    /\ UNCHANGED <<cfg_vars, model_vars, session, current_step, total_iters, epochs,
                   e, bi, step, k, avg, val_i, loads, opt_steps, saves, forwards,
                   batch_events, plot_result, epoch_batches, epochs_done, evals>>
    /\ UNCHANGED <<epoch_events, step_lrs, m_val_loss, val_bag, save_ok, avg_read, start_step, examined>>

\* --------------------------------------------------------- train_session
\* lines 41-57: the epoch count is fixed from the step counter read here,
\* the learning rate of every parameter group is set, the averagers are made
TrainSessionStart ==
    /\ pc = "train_session"
    /\ current_step' = model_step
    /\ total_iters' = session.train_set
    /\ epochs' = Epochs(session.max_step - model_step, session.train_set)
    /\ opt_lr' = SetLr(opt_lr, session.lr)
    /\ avg' = [a \in AvgNames |-> AveragerNew]
    /\ epoch_events' = <<>>
    /\ e' = 1
    /\ epochs_done' = 0
    /\ epoch_batches' = 0
    /\ evals' = 0
    /\ pc' = "epoch"
    /\ UNCHANGED <<cfg_vars, model_step, training, i, session, bi, step, k, val_i,
                   loads, status, opt_steps, saves, forwards, batch_events,
                   plot_result>>
    /\ UNCHANGED <<step_lrs, m_val_loss, val_bag, save_ok, avg_read, start_step, examined>>

\* lines 58-62: the next epoch begins with the first batch of the train set
EpochBegin ==
    /\ pc = "epoch"
    /\ e <= epochs
    /\ bi' = 1
    /\ evals' = 0
    /\ epoch_events' = <<>>
    /\ pc' = "batch"
    /\ UNCHANGED <<cfg_vars, model_vars, i, session, current_step, total_iters, epochs,
                   e, step, k, avg, val_i, loads, status, opt_steps, saves, forwards,
                   batch_events, plot_result, epoch_batches, epochs_done>>
    /\ UNCHANGED <<step_lrs, m_val_loss, val_bag, save_ok, avg_read, start_step, examined>>

\* line 58, range exhausted: train_session returns
SessionEnd ==
    /\ pc = "epoch"
    /\ e > epochs
    /\ pc' = "session_return"
    /\ UNCHANGED <<cfg_vars, model_vars, local_vars, obs_vars>>

\* lines 62-98: one training batch. model.train(), forward with gradients,
\* losses, zero_grad, backward, clip, optimizer.step(); the model's step
\* counter advances with the update; the averagers take one sample each and
\* are read for the progress message; step and k are read from the model
TrainBatchNoUpdate ==
    /\ pc = "batch"
    /\ training' = ModelTrain(training)
    /\ forwards' = forwards \cup {[caller |-> "train_session", grad |-> TRUE, training |-> training']}
    /\ opt_steps' = opt_steps
    /\ model_step' = model_step
    /\ avg' = [a \in AvgNames |->
                  AveragerAdd(avg[a], [index |-> session.index, e |-> e, i |-> bi])]
    /\ avg_read' = avg'
    /\ step_lrs' = step_lrs \cup {[index |-> session.index, lr |-> opt_lr]}
    /\ step' = model_step'
    /\ k' = Thousands(step')
    /\ batch_events' = <<>>
    /\ epoch_batches' = epoch_batches + 1
    /\ pc' = "checkpoint"
    /\ UNCHANGED <<cfg_vars, opt_lr, i, session, current_step, total_iters, epochs,
                   e, bi, val_i, loads, status, saves, plot_result, epochs_done, evals>>
    /\ UNCHANGED <<epoch_events, m_val_loss, val_bag, save_ok, start_step, examined>>

TrainBatch ==
    /\ pc = "batch"
    /\ training' = ModelTrain(training)
    /\ forwards' = forwards \cup {[caller |-> "train_session", grad |-> TRUE, training |-> training']}
    /\ opt_steps' = opt_steps + 1
    /\ model_step' = StepAfterUpdate(model_step)
    /\ avg' = [a \in AvgNames |->
                  AveragerAdd(avg[a], [index |-> session.index, e |-> e, i |-> bi])]
    /\ avg_read' = avg'
    /\ step_lrs' = step_lrs \cup {[index |-> session.index, lr |-> opt_lr]}
    /\ step' = model_step'
    /\ k' = Thousands(step')
    /\ batch_events' = <<"optimizer.step">>
    /\ epoch_batches' = epoch_batches + 1
    /\ pc' = "checkpoint"
    /\ UNCHANGED <<cfg_vars, opt_lr, i, session, current_step, total_iters, epochs,
                   e, bi, val_i, loads, status, saves, plot_result, epochs_done, evals>>
    /\ UNCHANGED <<epoch_events, m_val_loss, val_bag, save_ok, start_step, examined>>

\* line 100: step % hp.forward_checkpoint_every == 0
CheckpointDueOnPlotPeriod(s) == s % forward_plot_every = 0
CheckpointDue(s) == s % forward_checkpoint_every = 0

\* line 105: step % hp.forward_plot_every == 0
PlotDue(s) == s % forward_plot_every = 0

\* lines 100-103: the periodic named checkpoint. A failing save raises out
\* of train_session and train
CheckpointEvery ==
    /\ pc = "checkpoint"
    /\ IF CheckpointDue(step)
       THEN /\ saves' = Append(saves, [name |-> CkptName(k), step |-> model_step])
            /\ batch_events' = Append(batch_events, "save_checkpoint")
            /\ \E ok \in BOOLEAN : save_ok' = ok /\ pc' = AfterSave(ok, "plot")
       ELSE /\ pc' = "plot"
            /\ UNCHANGED <<saves, batch_events, save_ok>>
    /\ UNCHANGED <<cfg_vars, model_vars, local_vars, loads, status, opt_steps, forwards,
                   plot_result, epoch_batches, epochs_done, evals>>
    /\ UNCHANGED <<epoch_events, step_lrs, val_bag, avg_read, start_step, examined>>

\* places of generate_plots where an exception may arise: unpacking the
\* validation sample (170-173), the teacher-forced forward (175), its figures
\* and audio (176-205), model.generate (207), its figures and audio (208-228)
FailPoints == {"none", "val_sample", "forward", "figures", "generate", "generated_figures"}

\* the model calls generate_plots has made when it ends at fail point fp:
\* model(...) of line 175 and, past it, model.generate(...) of line 207,
\* both in evaluation mode and neither inside torch.no_grad(), so that both
\* are seen as the same kind of call
PlotCalls(fp) ==
    IF fp # "val_sample"
    THEN {[caller |-> "generate_plots", grad |-> TRUE, training |-> FALSE]}
    ELSE {}

\* utils.decorators.ignore_exception: an exception of the wrapped call is
\* caught and logged, the call returns to its caller
ignore_exception(fp) == IF fp = "none" THEN "ok" ELSE "failed"

\* lines 167-228 without the decorator of line 167
generate_plots_undecorated(fp) ==
    /\ training' = FALSE
    /\ forwards' = forwards \cup PlotCalls(fp)
    /\ batch_events' = Append(batch_events, "generate_plots")
    /\ plot_result' = IF fp = "none" THEN "ok" ELSE "failed"
    /\ pc' = IF fp = "none" THEN "add_scalar" ELSE "raised"

\* lines 167-228: model.eval(), the two model calls, figures and audio
generate_plots(fp) ==
    /\ training' = FALSE
    /\ forwards' = forwards \cup PlotCalls(fp)
    /\ batch_events' = Append(batch_events, "generate_plots")
    /\ plot_result' = ignore_exception(fp)
    /\ pc' = "add_scalar"

\* lines 105-106: the periodic diagnostics
PlotEvery ==
    /\ pc = "plot"
    /\ IF PlotDue(step)
       THEN \E fp \in FailPoints : generate_plots(fp)
       ELSE /\ pc' = "add_scalar"
            /\ plot_result' = "none"
            /\ UNCHANGED <<training, forwards, batch_events>>
    /\ UNCHANGED <<cfg_vars, model_step, opt_lr, local_vars, loads, status, opt_steps,
                   saves, epoch_batches, epochs_done, evals>>
    /\ UNCHANGED <<epoch_events, step_lrs, val_bag, save_ok, avg_read, start_step, examined>>

\* lines 108-115: the batch's scalars go to the writer; then the next batch
\* of the epoch (line 62) or, after the last one, the end of the epoch
AddScalar ==
    /\ pc = "add_scalar"
    /\ batch_events' = Append(batch_events, "add_scalar")
    /\ IF bi < session.train_set
       THEN bi' = bi + 1 /\ pc' = "batch"
       ELSE bi' = bi /\ pc' = "evaluate"
    /\ UNCHANGED <<cfg_vars, model_vars, i, session, current_step, total_iters, epochs,
                   e, step, k, avg, val_i, loads, status, opt_steps, saves, forwards,
                   plot_result, epoch_batches, epochs_done, evals>>
    /\ UNCHANGED <<epoch_events, step_lrs, m_val_loss, val_bag, save_ok, avg_read, start_step, examined>>

\* -------------------------------------------------------------- evaluate
\* lines 116-119 and 138-145: evaluate is called; model.eval()
Evaluate ==
    /\ pc = "evaluate"
    /\ training' = FALSE
    /\ val_i' = 1
    /\ m_val_loss' = ZeroLoss
    /\ val_bag' = [l \in Losses |-> 0]
    /\ evals' = evals + 1
    /\ epoch_events' = Append(epoch_events, [call |-> "evaluate", step |-> model_step])
    /\ pc' = "eval_batch"
    /\ UNCHANGED <<cfg_vars, model_step, opt_lr, i, session, current_step, total_iters,
                   epochs, e, bi, step, k, avg, loads, status, opt_steps, saves,
                   forwards, batch_events, plot_result, epoch_batches, epochs_done>>
    /\ UNCHANGED <<step_lrs, save_ok, avg_read, start_step, examined>>

\* lines 146-160: one validation batch, forward inside torch.no_grad()
EvalBatch ==
    /\ pc = "eval_batch"
    /\ forwards' = forwards \cup {[caller |-> "evaluate", grad |-> FALSE, training |-> training]}
    /\ \E l \in Losses :
          /\ m_val_loss' = AddLoss(m_val_loss, l)
          /\ val_bag' = [val_bag EXCEPT ![l] = @ + 1]
    /\ IF val_i < session.val_set
       THEN val_i' = val_i + 1 /\ pc' = "eval_batch"
       ELSE val_i' = val_i /\ pc' = "eval_mean"
    /\ UNCHANGED <<cfg_vars, model_vars, i, session, current_step, total_iters, epochs,
                   e, bi, step, k, avg, loads, status, opt_steps, saves, batch_events,
                   plot_result, epoch_batches, epochs_done, evals>>
    /\ UNCHANGED <<epoch_events, step_lrs, save_ok, avg_read, start_step, examined>>

\* lines 161-165: the sums are divided by len(val_set) and returned
EvalMean ==
    /\ pc = "eval_mean"
    /\ m_val_loss' = ValMean(m_val_loss, session.val_set)
    /\ pc' = "val_writer"
    /\ UNCHANGED <<cfg_vars, model_vars, i, session, current_step, total_iters, epochs,
                   e, bi, step, k, avg, val_i, obs_vars>>

\* lines 120-127: the returned values are recorded at the current step;
\* they are not read again afterwards
ValWriter ==
    /\ pc = "val_writer"
    /\ epoch_events' = Append(epoch_events, [call |-> "writer.val", step |-> model_step])
    /\ m_val_loss' = ZeroLoss
    /\ val_bag' = [l \in Losses |-> 0]
    /\ pc' = "save_latest"
    /\ UNCHANGED <<cfg_vars, model_vars, i, session, current_step, total_iters, epochs,
                   e, bi, step, k, avg, val_i, loads, status, opt_steps, saves, forwards,
                   batch_events, plot_result, epoch_batches, epochs_done, evals>>
    /\ UNCHANGED <<step_lrs, save_ok, avg_read, start_step, examined>>

\* line 128 as if the save were gated like the periodic one
SaveLatestWhenDue ==
    /\ pc = "save_latest"
    /\ IF CheckpointDue(model_step)
       THEN /\ saves' = Append(saves, [name |-> LatestName, step |-> model_step])
            /\ epoch_events' = Append(epoch_events, [call |-> "save_checkpoint", step |-> model_step])
            /\ \E ok \in BOOLEAN : save_ok' = ok /\ pc' = AfterSave(ok, "reset")
       ELSE /\ pc' = "reset"
            /\ UNCHANGED <<saves, epoch_events, save_ok>>
    /\ UNCHANGED <<cfg_vars, model_vars, local_vars, loads, status, opt_steps, forwards,
                   batch_events, plot_result, epoch_batches, epochs_done, evals>>
    /\ UNCHANGED <<step_lrs, val_bag, avg_read, start_step, examined>>

\* line 128: the end-of-epoch checkpoint, saved without a name
SaveLatest ==
    /\ pc = "save_latest"
    /\ saves' = Append(saves, [name |-> LatestName, step |-> model_step])
    /\ epoch_events' = Append(epoch_events, [call |-> "save_checkpoint", step |-> model_step])
    /\ \E ok \in BOOLEAN : save_ok' = ok /\ pc' = AfterSave(ok, "reset")
    /\ UNCHANGED <<cfg_vars, model_vars, local_vars, loads, status, opt_steps, forwards,
                   batch_events, plot_result, epoch_batches, epochs_done, evals>>
    /\ UNCHANGED <<step_lrs, val_bag, avg_read, start_step, examined>>

\* lines 130-135: the averagers are reset, the epoch is over
ResetAverages ==
    /\ pc = "reset"
    /\ avg' = ResetAll(avg)
    /\ epoch_events' = Append(epoch_events, [call |-> "reset", step |-> model_step])
    /\ epochs_done' = epochs_done + 1
    /\ epoch_batches' = 0
    /\ e' = e + 1
    /\ pc' = "epoch"
    /\ UNCHANGED <<cfg_vars, model_vars, i, session, current_step, total_iters, epochs,
                   bi, step, k, val_i, loads, status, opt_steps, saves, forwards,
                   batch_events, plot_result, evals>>
    /\ UNCHANGED <<step_lrs, m_val_loss, val_bag, save_ok, avg_read, start_step, examined>>

\* ------------------------------------------------------------------ Spec
Next ==
    \/ TrainSkip
    \/ TrainStage
    \/ TrainReturn
    \/ TrainNext
    \/ TrainSessionStart
    \/ EpochBegin
    \/ SessionEnd
    \/ TrainBatch
    \/ CheckpointEvery
    \/ PlotEvery
    \/ AddScalar
    \/ Evaluate
    \/ EvalBatch
    \/ EvalMean
    \/ ValWriter
    \/ SaveLatest
    \/ ResetAverages

Spec == Init /\ [][Next]_vars

\* ---------------------------------------------------------------- claims
\* control is inside train_session
InSession ==
    pc \in {"epoch", "batch", "checkpoint", "plot", "add_scalar", "evaluate",
            "eval_batch", "eval_mean", "val_writer", "save_latest", "reset",
            "session_return"}

\* get_tts_datasets calls made for stage n
LoadsOf(n) == SelectSeq(loads, LAMBDA l : l.index = n)

\* the stages before the one at hand are settled, the later ones untouched,
\* and a stage's data is loaded once, with its batch size, exactly if it runs
C1_StageBook ==
    \A n \in 1 .. Len(forward_schedule) :
        /\ n < i => status[n] \in {"skipped", "done"}
        /\ n > i => status[n] = "pending"
        /\ n = i => status[n] = (IF pc = "train" THEN "pending" ELSE "running")
        /\ LoadsOf(n) = IF status[n] \in {"running", "done"}
                        THEN <<[index |-> n, batch_size |-> forward_schedule[n].bs]>>
                        ELSE <<>>

\* examining a stage either starts its session (step below the target) or
\* moves on with nothing done; the stage index only moves to the next stage
C1_Examine ==
    /\ (pc = "train" /\ i <= Len(forward_schedule)) =>
          IF model_step < forward_schedule[i].max_step
          THEN /\ pc' = "train_session"
               /\ i' = i
               /\ session'.index = i
               /\ session'.bs = forward_schedule[i].bs
               /\ session'.max_step = forward_schedule[i].max_step
          ELSE /\ pc' = "train"
               /\ i' = i + 1
               /\ UNCHANGED <<loads, session, opt_steps, saves, forwards, model_vars>>
    /\ i' = i \/ (i' = i + 1 /\ pc \in {"train", "session_return"})
    /\ pc' = "train_session" => pc = "train"

\* C1: train visits the stages in list order; a stage is run exactly if the
\* model's step counter is below its target; a skipped stage loads no data,
\* starts no session, takes no optimizer step and saves no checkpoint; a stage
\* that runs loads its data once with its batch size and its session is over
\* before the next stage is examined.
C1_StagesInOrder == [](C1_StageBook) /\ [][C1_Examine]_vars

C1_Witness ==
    /\ pc = "returned"
    /\ \E n, m \in 1 .. Len(forward_schedule) :
          status[n] = "skipped" /\ status[m] = "done" /\ n < m

\* C2: a stage whose target step equals the model's current step performs no
\* training batch, no optimizer step and no checkpoint save: train goes
\* straight on to the next stage.
C2_SatisfiedStageDoesNothing ==
    [][(pc = "train" /\ i <= Len(forward_schedule)
          /\ forward_schedule[i].max_step = model_step) =>
       (/\ pc' = "train"
        /\ i' = i + 1
        /\ UNCHANGED <<model_step, opt_steps, saves, forwards, loads, epoch_batches>>)]_vars

C2_Witness ==
    /\ pc = "returned"
    /\ Len(forward_schedule) = 1
    /\ forward_schedule[1].max_step = model_step
    /\ status[1] = "skipped"
    /\ opt_steps = 0
    /\ saves = <<>>

\* the remaining steps of the session at hand, as read at its start
Remaining == session.max_step - current_step

\* C3 as stated: when total_iters divides the remaining steps, the step
\* counter at the return of train_session is the target step.
C3_ExactWhenDivides ==
    (pc = "session_return" /\ Remaining % total_iters = 0) =>
        model_step = session.max_step

\* C3 amended: when total_iters divides the remaining steps, the step
\* counter at the return of train_session is the target step plus total_iters.
C3_OneEpochOverWhenDivides ==
    (pc = "session_return" /\ Remaining % total_iters = 0) =>
        model_step = session.max_step + total_iters

C3_Witness ==
    /\ pc = "session_return"
    /\ Remaining = 2
    /\ total_iters = 2
    /\ model_step = session.max_step + 2

\* C4: a session started below its target with total_iters >= 1 returns with
\* the step counter at or above the target and at most total_iters above it.
C4_OvershootAtMostOneEpoch ==
    (pc = "session_return" /\ current_step < session.max_step /\ total_iters >= 1) =>
        /\ model_step >= session.max_step
        /\ model_step - session.max_step <= total_iters

C4_Witness ==
    /\ pc = "session_return"
    /\ current_step < session.max_step
    /\ total_iters = 2
    /\ model_step = session.max_step + 1

\* C5 as stated: a session runs ceil(remaining / total_iters) epochs.
C5_CeilEpochs ==
    pc = "session_return" => epochs_done = CeilDiv(Remaining, total_iters)

\* C5 amended: a session runs remaining // total_iters + 1 epochs (the
\* ceiling when total_iters does not divide the remaining steps, one more
\* when it does), the count being fixed at the session's start from the step
\* counter read then, and each epoch takes every batch of the train set once.
C5_QuotientPlusOneEpochs ==
    InSession =>
        /\ total_iters = session.train_set
        /\ epochs = Remaining \div total_iters + 1
        /\ model_step = current_step + epochs_done * total_iters + epoch_batches
        /\ pc = "session_return" => epochs_done = epochs
        /\ pc \in {"checkpoint", "plot", "add_scalar"} => epoch_batches = bi
        /\ pc \in {"evaluate", "eval_batch", "eval_mean", "val_writer", "save_latest"} =>
              epoch_batches = total_iters
        /\ (Remaining % total_iters # 0 /\ pc = "session_return") =>
              epochs_done = CeilDiv(Remaining, total_iters)

C5_Witness ==
    /\ pc = "session_return"
    /\ total_iters = 2
    /\ Remaining = 2
    /\ epochs_done = 2

\* C6: the model's step counter never decreases, advances by exactly 1 with
\* the single optimizer update of each training batch, and is left unchanged
\* by validation, diagnostics, checkpoint saves and metric recording.
C6_StepCounter ==
    [][/\ model_step' >= model_step
       /\ pc = "batch" => (model_step' = model_step + 1 /\ opt_steps' = opt_steps + 1)
       /\ pc # "batch" => (model_step' = model_step /\ opt_steps' = opt_steps)]_vars

C6_Witness ==
    /\ pc = "returned"
    /\ opt_steps >= 3
    /\ saves # <<>>
    /\ \E f \in forwards : f.caller = "evaluate"
    /\ \E f \in forwards : f.caller = "generate_plots"

\* C7: a failure inside generate_plots does not reach the training-session
\* loop: whatever its outcome, control goes on to record the batch's scalars
\* and then to the next batch, with the step counter, the optimizer steps and
\* the checkpoint saves as they are after a successful call.
C7_DiagnosticsFailureIsolated ==
    [][/\ pc = "plot" =>
            /\ pc' = "add_scalar"
            /\ training' = (IF step % forward_plot_every = 0 THEN FALSE ELSE training)
            /\ UNCHANGED <<model_step, opt_lr, opt_steps, saves, loads, status,
                           local_vars, epoch_batches, epochs_done>>
       /\ pc = "add_scalar" =>
            /\ pc' = (IF bi < total_iters THEN "batch" ELSE "evaluate")
            /\ batch_events' = Append(batch_events, "add_scalar")]_vars

C7_Witness ==
    /\ pc = "checkpoint"
    /\ plot_result = "failed"
    /\ bi >= 2
    /\ batch_events = <<"optimizer.step">>

\* C8 as stated: the model is in training mode right after evaluate returns
\* and right after generate_plots returns.
C8_TrainingModeOnReturn ==
    /\ pc = "val_writer" => training
    /\ (pc = "add_scalar" /\ plot_result # "none") => training

\* C8 amended: evaluate and generate_plots leave the model in evaluation mode
\* when they return (generate_plots also when it ends through a swallowed
\* failure); the training-session loop restores training mode at the start of
\* every batch, so that every training forward pass runs in training mode.
C8_TrainingModeRestoredByLoop ==
    /\ pc = "val_writer" => ~training
    /\ (pc = "add_scalar" /\ plot_result # "none") => ~training
    /\ pc \in {"checkpoint", "plot"} => training
    /\ \A f \in forwards : f.caller = "train_session" => f.training

C8_Witness ==
    /\ pc = "checkpoint"
    /\ training
    /\ plot_result = "failed"
    /\ \E f \in forwards : f.caller = "evaluate"
    /\ epochs_done >= 1

\* C9: every model call of evaluate and of generate_plots is made with
\* gradient tracking off; gradients are tracked only for the forward pass of
\* a training batch.
C9_InferenceWithoutGradients ==
    \A f \in forwards : f.grad <=> f.caller = "train_session"

\* the calls the batch at hand is to have made once its side effects are through
ExpectedBatchEvents ==
    <<"optimizer.step">>
    \o (IF model_step % forward_checkpoint_every = 0 THEN <<"save_checkpoint">> ELSE <<>>)
    \o (IF model_step % forward_plot_every = 0 THEN <<"generate_plots">> ELSE <<>>)

\* C10: after a batch's optimizer update, with step the counter after it, a
\* checkpoint named by step // 1000 is saved exactly if step is a multiple of
\* the checkpoint period and diagnostics run exactly if step is a multiple of
\* the diagnostics period, each by its own period alone, the save first.
C10_PeriodicSideEffects ==
    /\ pc \in {"checkpoint", "plot", "add_scalar"} =>
          (step = model_step /\ k = model_step \div 1000)
    /\ pc = "add_scalar" => batch_events = ExpectedBatchEvents
    /\ (pc \in {"plot", "add_scalar"} /\ model_step % forward_checkpoint_every = 0) =>
          /\ saves # <<>>
          /\ saves[Len(saves)] = [name |-> CkptName(model_step \div 1000), step |-> model_step]
    /\ \A n \in 1 .. Len(saves) :
          saves[n].name.named =>
             /\ saves[n].step % forward_checkpoint_every = 0
             /\ saves[n].name = CkptName(saves[n].step \div 1000)
    /\ (pc \in {"plot", "add_scalar"} /\ model_step % forward_checkpoint_every # 0) =>
          \A n \in 1 .. Len(saves) : saves[n].name.named => saves[n].step # model_step

C10_Witness ==
    /\ pc = "add_scalar"
    /\ forward_checkpoint_every # forward_plot_every
    /\ batch_events = <<"optimizer.step", "save_checkpoint", "generate_plots">>
    /\ k = 1
    /\ \E n \in 1 .. Len(saves) : saves[n].name = CkptName(0)

\* the end-of-epoch calls made so far at each place of the epoch's end, all
\* at the step the epoch's last batch left
EpochEndCalls ==
    CASE pc \in {"eval_batch", "eval_mean", "val_writer"} -> <<"evaluate">>
      [] pc = "save_latest" -> <<"evaluate", "writer.val">>
      [] pc = "reset" -> <<"evaluate", "writer.val", "save_checkpoint">>
      [] pc \in {"epoch", "session_return"} /\ epochs_done >= 1 ->
            <<"evaluate", "writer.val", "save_checkpoint", "reset">>
      [] OTHER -> <<>>

\* C11: in every epoch, after its last batch and before the next epoch's first
\* batch (or the session's return), exactly one validation pass runs, then its
\* results are recorded at the current step, then one un-named checkpoint is
\* saved whatever the step, then all five averagers are reset; between two
\* batches of an epoch there is no validation pass and no un-named save.
C11_EpochEnd ==
    InSession =>
        /\ epoch_events = [n \in 1 .. Len(EpochEndCalls) |->
                              [call |-> EpochEndCalls[n], step |-> model_step]]
        /\ evals = (IF EpochEndCalls = <<>> THEN 0 ELSE 1)
        /\ pc = "reset" => saves[Len(saves)] = [name |-> LatestName, step |-> model_step]
        /\ pc \in {"epoch", "session_return"} => \A a \in AvgNames : avg[a] = {}

C11_Witness ==
    /\ pc = "epoch"
    /\ e = 2
    /\ epochs_done = 1
    /\ Len(epoch_events) = 4
    /\ forward_checkpoint_every = 2
    /\ model_step % 2 = 1
    /\ saves[Len(saves)] = [name |-> LatestName, step |-> model_step]

\* C12: at every optimizer step of a session the optimizer's learning rate
\* is that session's rate: the rate of an earlier stage is never in force
\* during a later stage's updates, and the session's rate is in force at
\* the start of each of its epochs and throughout the session.
C12_SessionLearningRate ==
    /\ \A r \in step_lrs : r.lr = forward_schedule[r.index].lr
    /\ InSession => opt_lr = session.lr
    /\ pc = "epoch" => opt_lr = forward_schedule[session.index].lr

\* two stages with different rates have both taken optimizer steps, and the
\* later one stands at the start of its second epoch
C12_Witness ==
    /\ pc = "epoch" /\ e = 2 /\ session.index = 2
    /\ forward_schedule[1].lr # forward_schedule[2].lr
    /\ \E r1, r2 \in step_lrs : r1.index = 1 /\ r2.index = 2 /\ r1.lr # r2.lr

\* the sum of the per-batch loss values drawn during the validation pass
ValBagSum == val_bag[1] * 1 + val_bag[2] * 2

\* C13: the mean mel loss evaluate returns is the sum of the per-batch loss
\* values of one full pass over val_set divided by len(val_set); when every
\* batch has the same loss value L the mean is L; the pass takes no
\* optimizer step: the step counter and the count of optimizer steps stand
\* where they stood when evaluate was called.
C13_ValidationMean ==
    /\ pc = "val_writer" =>
          /\ val_bag[1] + val_bag[2] = session.val_set
          /\ m_val_loss.num * session.val_set = ValBagSum * m_val_loss.den
          /\ \A L \in Losses :
                val_bag[L] = session.val_set => m_val_loss.num = L * m_val_loss.den
    /\ pc \in {"eval_batch", "eval_mean", "val_writer"} =>
          /\ epoch_events[1].call = "evaluate"
          /\ model_step = epoch_events[1].step
          /\ opt_steps = epoch_events[1].step - start_step

\* a pass over two validation batches of loss 2 each has returned the mean 2
C13_Witness ==
    /\ pc = "val_writer" /\ session.val_set = 2 /\ val_bag[2] = 2
    /\ m_val_loss.num = 2 * m_val_loss.den /\ opt_steps >= 1

\* C14: a save_checkpoint call that raises, the periodic named one or the
\* one at the end of an epoch, is not caught: the exception leaves
\* train_session and train, and nothing runs afterwards: no batch, no
\* optimizer step, no later stage. The stage at hand stays unfinished and
\* every later stage stays untouched.
C14_SaveFailurePropagates ==
    /\ ~save_ok <=> pc = "raised"
    /\ pc = "raised" =>
          /\ ~ENABLED Next
          /\ saves[Len(saves)].step = model_step
          /\ opt_steps = model_step - start_step
          /\ status[i] = "running"
          /\ \A n \in (i + 1) .. Len(forward_schedule) :
                status[n] = "pending" /\ examined[n] = -1

\* the save at the end of an epoch has raised while a later stage was still
\* due and the session had epochs left
C14_Witness ==
    /\ pc = "raised" /\ ~save_ok
    /\ saves[Len(saves)].name = LatestName
    /\ e < epochs
    /\ i < Len(forward_schedule)
    /\ StageDue(model_step, forward_schedule[i + 1].max_step)

\* the periodic named save has raised before the epoch's last batch
C14_NamedWitness ==
    /\ pc = "raised" /\ ~save_ok
    /\ saves[Len(saves)].name # LatestName
    /\ bi < total_iters

\* the samples of batches 1 .. n of epoch ep of the session at hand
BatchSamples(ep, n) == {[index |-> session.index, e |-> ep, i |-> j] : j \in 1 .. n}

\* C15: each of the five running averages read for batch i of an epoch is
\* taken over exactly the i samples added in batches 1 .. i of that epoch of
\* that session, none from an earlier epoch or session, and get() is never
\* called on an Averager that holds no sample.
C15_RunningAverages ==
    pc \in {"checkpoint", "plot", "add_scalar"} =>
        \A a \in AvgNames :
            /\ avg_read[a] = BatchSamples(e, bi)
            /\ Cardinality(avg_read[a]) = bi
            /\ avg_read[a] # {}

\* the averages are read in the second epoch of the second session that
\* ran: they hold that epoch's sample alone
C15_Witness ==
    /\ pc = "checkpoint" /\ e = 2 /\ bi = 1 /\ session.index = 2
    /\ status[1] = "done"
    /\ \A a \in AvgNames : avg_read[a] = BatchSamples(2, 1)

\* the averages are read for the second batch of a second epoch
C15_SecondBatchWitness ==
    /\ pc = "checkpoint" /\ e = 2 /\ bi = 2
    /\ \A a \in AvgNames : avg_read[a] = BatchSamples(2, 2)

\* C16: every forward pass of a training batch and every optimizer step
\* runs with the model in training mode, whatever ran before the batch: a
\* validation pass, or a diagnostics call that ended well or failed, each of
\* which leaves the model in evaluation mode.
C16_TrainingModeAtEveryStep ==
    /\ \A f \in forwards : f.caller = "train_session" => (f.training /\ f.grad)
    /\ (pc = "checkpoint" /\ batch_events = <<"optimizer.step">>) => training
    /\ (opt_steps >= 1 /\ InSession) =>
          [caller |-> "train_session", grad |-> TRUE, training |-> TRUE] \in forwards

\* the first batch of a second epoch has taken its optimizer step in
\* training mode: the validation pass ran before it, and before that the
\* diagnostics of the epoch's last batch failed
C16_Witness ==
    /\ pc = "checkpoint" /\ batch_events = <<"optimizer.step">> /\ training
    /\ e = 2 /\ bi = 1 /\ epochs_done = 1
    /\ plot_result = "failed"
    /\ [caller |-> "evaluate", grad |-> FALSE, training |-> FALSE] \in forwards

\* a batch has taken its optimizer step in training mode right after the
\* diagnostics of the batch before it ended well
C16_AfterDiagnosticsWitness ==
    /\ pc = "checkpoint" /\ batch_events = <<"optimizer.step">> /\ training
    /\ bi = 2 /\ plot_result = "ok"

\* train with collaborators that do not fail: no save_checkpoint call raises
\* (a failure inside generate_plots is swallowed by ignore_exception and is
\* left in). The interpreter keeps executing the program, so a step that can
\* be taken is taken: weak fairness of the next-state relation.
NextNoFailure == Next /\ save_ok'

LiveSpec == Init /\ [][NextNoFailure]_vars /\ WF_vars(NextNoFailure)

\* C17: for every finite schedule and train sets of at least one batch,
\* train eventually returns when no collaborator fails, and when it has
\* returned the model's step counter is at or above the target step of
\* every stage of the schedule.
C17_TrainReturns ==
    /\ <>(pc = "returned")
    /\ [](pc = "returned" =>
             \A n \in 1 .. Len(forward_schedule) :
                 model_step >= forward_schedule[n].max_step)

\* train has returned after running two sessions, above both targets
C17_Witness ==
    /\ pc = "returned"
    /\ Len(forward_schedule) = 2 /\ status = <<"done", "done">>
    /\ model_step > forward_schedule[1].max_step
    /\ model_step > forward_schedule[2].max_step

\* C18: the test of line 31 reads the model's live step counter when the
\* stage is reached, after every earlier session and its overshoot, not the
\* counter as it stood when train was called: a later stage whose target is
\* at or below the step an earlier session has reached is skipped, also when
\* the counter at the start of train was below that target.
C18_LiveStepCounter ==
    \A n \in 1 .. Len(forward_schedule) :
        /\ status[n] = "pending" <=> examined[n] = -1
        /\ status[n] = "skipped" => examined[n] >= forward_schedule[n].max_step
        /\ status[n] \in {"running", "done"} =>
              (examined[n] >= 0 /\ examined[n] < forward_schedule[n].max_step)
        /\ (n = i /\ pc = "train") => examined[n] = -1
        /\ (n > 1 /\ examined[n] # -1) =>
              /\ examined[n] >= examined[n - 1]
              /\ (status[n - 1] = "done" =>
                     examined[n] >= forward_schedule[n - 1].max_step)
        /\ (n < i /\ examined[n] # -1 /\ pc = "train") => examined[n] <= model_step

\* the second stage has been skipped on the overshoot of the first session,
\* although the counter at the start of train was below its target
C18_Witness ==
    /\ Len(forward_schedule) = 2
    /\ status = <<"done", "skipped">>
    /\ StageDueSnapshot(model_step, forward_schedule[2].max_step)
    /\ forward_schedule[1].max_step < forward_schedule[2].max_step
    /\ examined[2] > start_step
    /\ examined[2] >= forward_schedule[2].max_step

\* the periodic named checkpoints saved so far
NamedSaves == {saves[n] : n \in {m \in 1 .. Len(saves) : saves[m].name.named}}

\* C19 as stated: whatever the checkpoint period, two periodic named
\* checkpoints saved at different steps have different names.
C19_DistinctNamesAtDistinctSteps ==
    \A a, b \in NamedSaves : a.step # b.step => a.name # b.name

\* C19 amended: two periodic named checkpoints have different names exactly
\* when their steps lie in different thousands (step // 1000); checkpoints
\* saved at different steps of the same thousand share one name.
C19_NamedByThousands ==
    /\ \A a \in NamedSaves :
          a.name = CkptName(a.step \div 1000) /\ a.step % forward_checkpoint_every = 0
    /\ \A a, b \in NamedSaves :
          a.name # b.name <=> (a.step \div 1000) # (b.step \div 1000)

\* with a period of 1 the checkpoints of steps 1000 and 1001 share the name
\* of the thousand 1, the checkpoint of step 999 has the name of thousand 0
C19_Witness ==
    /\ forward_checkpoint_every = 1
    /\ \E a, b, c \in NamedSaves :
          /\ a.step = 999 /\ b.step = 1000 /\ c.step = 1001
          /\ a.name # b.name /\ b.name = c.name

====
